---- MODULE Spec2Model ----
(***************************************************************************)
(* A model of ship/tuflow/tuflowmodelfile.py: the TuflowModelFile          *)
(* container (an ordered list of [line_type, filepart] entries plus a list *)
(* of TuflowScenario blocks) and the TuflowScenario block itself.          *)
(*                                                                         *)
(* Python lists are sequences (index 0 of the code is index 1 here).       *)
(* Objects the container only refers to (TuflowFile, ModelVariable) are    *)
(* named by a reference and described by the table FilePart.  A call that  *)
(* raises is recorded by the name of the exception in the field err of the *)
(* returned record.                                                        *)
(***************************************************************************)
EXTENDS Integers, Sequences, FiniteSets, TLC

VARIABLES
    contents,   \* self.contents: the entries, <<line_type, filepart>>
    scenarios,  \* self.scenarios: the TuflowScenario objects, as added
    heap,       \* the indices of scenarios in increasing memory address
    ret         \* the last call: its name, arguments, return value or error

vars == <<contents, scenarios, heap, ret>>

(***************************************************************************)
(* Constants of the program.                                               *)
(***************************************************************************)
None == "None"

\* TuflowScenario.IF, ELSE, TUFLOW_PART, SCENARIO_PART = range(4)
TS_IF == 0
TS_ELSE == 1
TUFLOW_PART == 2
SCENARIO_PART == 3

\* ship.tuflow.FILEPART_TYPES, used as ft.<NAME>
FT_MODEL == "MODEL"
FT_RESULT == "RESULT"
FT_GIS == "GIS"
FT_VARIABLE == "VARIABLE"
FT_UNKNOWN == "UNKNOWN"
FT_COMMENT == "COMMENT"
FT_SCENARIO == "SCENARIO"
FT_SCENARIO_END == "SCENARIO_END"

\* indent_spacing += 4 / -= 4
IndentStep == 4

(***************************************************************************)
(* Payloads of an entry: the text of a comment or of an unknown line, no   *)
(* payload (the scenario markers), or a reference to a file part.          *)
(***************************************************************************)
Text(t) == [kind |-> "text", text |-> t]
NoPayload == [kind |-> "none"]
Part(r) == [kind |-> "part", ref |-> r]

(***************************************************************************)
(* The file parts the loader hands over.  cls is the Python class          *)
(* (ModelVariable is a TuflowFilePart that is no TuflowFile); text is what *)
(* the part's own getPrintableContents() returns; path is the absolute     *)
(* path as its components.                                                 *)
(***************************************************************************)
FilePart(r) ==
    CASE r = "A" -> [cls |-> "TuflowFile", hex_hash |-> "hA", child_hash |-> "hB",
                     category |-> None, command |-> "Read GIS Z Line",
                     comment |-> "", text |-> "Read GIS Z Line == a.shp",
                     file_name |-> "a", extension |-> "shp",
                     path |-> <<"m", "gis", "a.shp">>]
      [] r = "B" -> [cls |-> "TuflowFile", hex_hash |-> "hB", child_hash |-> "hC",
                     category |-> None, command |-> "Read GIS Z Line",
                     comment |-> "", text |-> "b.shp",
                     file_name |-> "b", extension |-> "shp",
                     path |-> <<"m", "gis", "b.shp">>]
      [] r = "C" -> [cls |-> "TuflowFile", hex_hash |-> "hC", child_hash |-> None,
                     category |-> None, command |-> "Read GIS Z Line",
                     comment |-> "", text |-> "c.shp",
                     file_name |-> "c", extension |-> "shp",
                     path |-> <<"m", "gis", "c.shp">>]
      [] r = "E" -> [cls |-> "TuflowFile", hex_hash |-> "hE", child_hash |-> "hB",
                     category |-> "ecf", command |-> "Estry Control File",
                     comment |-> "1d", text |-> "Estry Control File == m.ecf",
                     file_name |-> "m", extension |-> "ecf",
                     path |-> <<"m", "m.ecf">>]
      [] r = "F" -> [cls |-> "TuflowFile", hex_hash |-> "hF", child_hash |-> None,
                     category |-> "tgc", command |-> "Geometry Control File",
                     comment |-> "", text |-> "Geometry Control File == g.tgc",
                     file_name |-> "g", extension |-> "tgc",
                     path |-> <<"m", ".", "g.tgc">>]
      [] r = "R" -> [cls |-> "TuflowFile", hex_hash |-> "hR", child_hash |-> None,
                     category |-> None, command |-> "Log Folder",
                     comment |-> "", text |-> "Log Folder == r.tlf",
                     file_name |-> "r", extension |-> "tlf",
                     path |-> <<"m", "x", "..", "r.tlf">>]
      [] r = "V" -> [cls |-> "ModelVariable", hex_hash |-> "hV", child_hash |-> None,
                     category |-> None, command |-> "Cell Size",
                     comment |-> "", text |-> "Cell Size == 2",
                     file_name |-> "", extension |-> "",
                     path |-> <<>>]

\* isinstance(x, TuflowFilePart), isinstance(x, TuflowFile)
IsTuflowFilePart(p) == p.kind = "part"
IsTuflowFile(p) == p.kind = "part" /\ FilePart(p.ref).cls = "TuflowFile"

(***************************************************************************)
(* TuflowScenario                                                          *)
(***************************************************************************)
TuflowScenario(if_type, values, hex_hash, order, comment, comment_char) ==
    [order |-> order, if_type |-> if_type, hex_hash |-> hex_hash,
     values |-> values, part_list |-> <<>>, comment |-> comment,
     comment_char |-> comment_char, has_endif |-> FALSE,
     first_tfp |-> None, current_part_index |-> 0]

addPartRef(s, ref_type, hex_hash) ==
    [s EXCEPT !.part_list = Append(@, <<ref_type, hex_hash>>),
              !.first_tfp = IF ref_type = TUFLOW_PART /\ @ = None
                            THEN hex_hash ELSE @]

getTuflowFilePartRefs(s) ==
    LET IsPart(p) == p[1] = TUFLOW_PART
        kept == SelectSeq(s.part_list, IsPart)
    IN  [k \in 1..Len(kept) |-> kept[k][2]]

\* sep.join(parts) for a list of strings
RECURSIVE Join(_, _)
Join(sep, parts) ==
    IF parts = <<>> THEN ""
    ELSE IF Len(parts) = 1 THEN parts[1]
    ELSE parts[1] \o sep \o Join(sep, Tail(parts))

getOpeningStatement(s) ==
    IF s.values[1] = "ELSE" THEN "ELSE"
    ELSE Join(" ", << IF s.if_type = TS_IF THEN "IF SCENARIO =="
                                           ELSE "ELSE IF SCENARIO ==",
                      Join(" | ", s.values) >>)

getClosingStatement(s) == IF s.has_endif THEN "END IF" ELSE ""

(***************************************************************************)
(* uf.LoadStack, the stack of open scenario blocks (ship/utils, outside    *)
(* this file): a list with add, peek and pop.                              *)
(***************************************************************************)
StackAdd(stack, x) == Append(stack, x)
StackPeek(stack) == stack[Len(stack)]
StackPop(stack) == SubSeq(stack, 1, Len(stack) - 1)

(***************************************************************************)
(* getPrintableContents                                                    *)
(***************************************************************************)
\* ''.join([' '] * n): no blank for n <= 0
RECURSIVE Spaces(_)
Spaces(n) == IF n <= 0 THEN "" ELSE " " \o Spaces(n - 1)

\* sorted(self.scenarios): TuflowScenario defines no ordering, so the objects
\* compare by identity, i.e. by memory address (CPython 2's default order).
SortedScenarios(scens, hp) == [k \in 1..Len(hp) |-> scens[hp[k]]]

\* The locals of one call. line_of (the entry each output line came from) and
\* opened (the blocks dequeued, in order) are history, not program state.
RenderStart(scens, hp) ==
    [output |-> <<>>, skip_lines |-> {}, scen_stack |-> <<>>,
     indent_spacing |-> 0, indent |-> "",
     scenarios |-> SortedScenarios(scens, hp),
     line_of |-> <<>>, opened |-> <<>>, err |-> "none"]

Emit(st, i, line) ==
    [st EXCEPT !.output = Append(@, line), !.line_of = Append(@, i)]

Raise(st, e) == [st EXCEPT !.err = e]

\* The while loop of getPrintableFilepart; f is the part read last and acc
\* holds out_line, skip_lines and the error raised, if any.
RECURSIVE FollowChain(_, _, _, _, _)
FollowChain(cont, i, f, child_count, acc) ==
    IF ~IsTuflowFile(f) THEN [acc EXCEPT !.err = "AttributeError"]
    ELSE IF FilePart(f.ref).child_hash # None
    THEN IF i + child_count > Len(cont)
         THEN [acc EXCEPT !.err = "IndexError"]
         ELSE LET g == cont[i + child_count][2]
              IN  IF ~IsTuflowFilePart(g)
                  THEN [acc EXCEPT !.err = "AttributeError"]
                  ELSE FollowChain(cont, i, g, child_count + 1,
                           [acc EXCEPT !.out_line = Append(@, FilePart(g.ref).text),
                                       !.skip_lines = @ \cup {i + child_count}])
    ELSE acc

\* getPrintableFilepart without skip_lines.append(i + child_count)
getPrintableFilepartNoSkip(cont, i, f, st) ==
    IF IsTuflowFile(f) /\ FilePart(f.ref).child_hash # None
    THEN LET acc == FollowChain(cont, i, f, 1,
                        [out_line |-> <<FilePart(f.ref).text>>,
                         skip_lines |-> st.skip_lines, err |-> "none"])
         IN  IF acc.err # "none" THEN Raise(st, acc.err)
             ELSE Emit(st, i, st.indent \o Join(" | ", acc.out_line) \o "\n")
    ELSE Emit(st, i, st.indent \o FilePart(f.ref).text \o "\n")

getPrintableFilepart(cont, i, f, st) ==
    IF IsTuflowFile(f) /\ FilePart(f.ref).child_hash # None
    THEN LET acc == FollowChain(cont, i, f, 1,
                        [out_line |-> <<FilePart(f.ref).text>>,
                         skip_lines |-> st.skip_lines, err |-> "none"])
             st1 == [st EXCEPT !.skip_lines = acc.skip_lines]
         IN  IF acc.err # "none" THEN Raise(st1, acc.err)
             ELSE Emit(st1, i, st.indent \o Join(" | ", acc.out_line) \o "\n")
    ELSE Emit(st, i, st.indent \o FilePart(f.ref).text \o "\n")

\* entry[0] == ft.SCENARIO
OpenScenario(i, st) ==
    IF st.scenarios = <<>> THEN Raise(st, "IndexError")
    ELSE LET s == Head(st.scenarios)
             st1 == [st EXCEPT !.scenarios = Tail(@),
                               !.scen_stack = StackAdd(@, s),
                               !.opened = Append(@, s)]
             st2 == Emit(st1, i, st.indent \o getOpeningStatement(StackPeek(st1.scen_stack)))
         IN  [st2 EXCEPT !.indent_spacing = @ + IndentStep,
                         !.indent = Spaces(st.indent_spacing + IndentStep)]

\* entry[0] == ft.SCENARIO_END. No test of the stack precedes peek(); what
\* LoadStack does when empty is emptyPeek: it raises, or it returns None and
\* the call of getClosingStatement on None raises.
CloseScenario(i, st, emptyPeek) ==
    LET st1 == [st EXCEPT !.indent_spacing = @ - IndentStep,
                          !.indent = Spaces(st.indent_spacing - IndentStep)]
    IN  IF st1.scen_stack = <<>>
        THEN Raise(st1, IF emptyPeek = "raise" THEN "IndexError" ELSE "AttributeError")
        ELSE [Emit(st1, i, st1.indent \o getClosingStatement(StackPeek(st1.scen_stack)))
                 EXCEPT !.scen_stack = StackPop(@)]

\* f.category == 'ecf'
EstryLine(i, f, st, has_estry_auto) ==
    IF has_estry_auto
    THEN Emit(st, i, st.indent \o Join(" ", <<FilePart(f.ref).command, "Auto !",
                                              FilePart(f.ref).comment>>))
    ELSE st

\* One pass of the for loop over self.contents.
RenderEntry(cont, i, st, has_estry_auto, emptyPeek) ==
    LET line_type == cont[i][1]
        f == cont[i][2]
    IN  IF i \in st.skip_lines THEN st
        ELSE IF line_type = FT_COMMENT
        THEN IF f.kind = "text" THEN Emit(st, i, f.text) ELSE Raise(st, "TypeError")
        ELSE IF line_type = FT_SCENARIO THEN OpenScenario(i, st)
        ELSE IF line_type = FT_SCENARIO_END THEN CloseScenario(i, st, emptyPeek)
        ELSE IF ~IsTuflowFilePart(f) THEN Raise(st, "AttributeError")
        ELSE IF FilePart(f.ref).category = "ecf"
        THEN EstryLine(i, f, st, has_estry_auto)
        ELSE getPrintableFilepart(cont, i, f, st)

RECURSIVE RenderFrom(_, _, _, _, _)
RenderFrom(cont, i, st, has_estry_auto, emptyPeek) ==
    IF i > Len(cont) \/ st.err # "none" THEN st
    ELSE RenderFrom(cont, i + 1, RenderEntry(cont, i, st, has_estry_auto, emptyPeek),
                    has_estry_auto, emptyPeek)

getPrintableContents(cont, scens, hp, has_estry_auto, emptyPeek) ==
    RenderFrom(cont, 1, RenderStart(scens, hp), has_estry_auto, emptyPeek)

(***************************************************************************)
(* The queries                                                             *)
(***************************************************************************)
Range(seq) == {seq[k] : k \in 1..Len(seq)}

\* for v in s.values: if not v in vals and not v == 'ELSE': vals.append(v)
\* CollectValues without the test v == 'ELSE'
RECURSIVE CollectValuesWithElse(_, _)
CollectValuesWithElse(vals, values) ==
    IF values = <<>> THEN vals
    ELSE CollectValuesWithElse(IF Head(values) \notin Range(vals)
                               THEN Append(vals, Head(values)) ELSE vals,
                               Tail(values))

RECURSIVE CollectValues(_, _)
CollectValues(vals, values) ==
    IF values = <<>> THEN vals
    ELSE CollectValues(IF Head(values) \notin Range(vals) /\ Head(values) # "ELSE"
                       THEN Append(vals, Head(values)) ELSE vals,
                       Tail(values))

RECURSIVE ScenarioVariablesFrom(_, _)
ScenarioVariablesFrom(vals, scens) ==
    IF scens = <<>> THEN vals
    ELSE ScenarioVariablesFrom(CollectValues(vals, Head(scens).values), Tail(scens))

getScenarioVariables(scens) == ScenarioVariablesFrom(<<>>, scens)

\* for v in vals: if v in scenario_vals: hashes.extend(s.getTuflowFilePartRefs())
RECURSIVE ExtendPerValue(_, _, _, _)
ExtendPerValue(hashes, s, values, scenario_vals) ==
    IF values = <<>> THEN hashes
    ELSE ExtendPerValue(IF Head(values) \in Range(scenario_vals)
                        THEN hashes \o getTuflowFilePartRefs(s) ELSE hashes,
                        s, Tail(values), scenario_vals)

\* the hashes with the test against s.values itself: every block is taken
RECURSIVE HashesOfEveryBlock(_, _, _)
HashesOfEveryBlock(hashes, scens, scenario_vals) ==
    IF scens = <<>> THEN hashes
    ELSE HashesOfEveryBlock(hashes \o getTuflowFilePartRefs(Head(scens)),
                            Tail(scens), scenario_vals)

RECURSIVE ScenarioHashes(_, _, _)
ScenarioHashes(hashes, scens, scenario_vals) ==
    IF scens = <<>> THEN hashes
    ELSE ScenarioHashes(ExtendPerValue(hashes, Head(scens), Head(scens).values,
                                       scenario_vals),
                        Tail(scens), scenario_vals)

getContentsByScenario(cont, scens, scenario_vals) ==
    LET hashes == ScenarioHashes(<<>>, scens, scenario_vals)
        Keep(c) == /\ IsTuflowFilePart(c[2])
                   /\ FilePart(c[2].ref).hex_hash \in Range(hashes)
        kept == SelectSeq(cont, Keep)
    IN  [k \in 1..Len(kept) |-> kept[k][2]]

\* The for ... else of getEntryByHash: the part found, or the exception.
\* c[1].hex_hash raises AttributeError on a payload that is no file part.
RECURSIVE EntryByHashFrom(_, _, _)
EntryByHashFrom(cont, k, hex_hash) ==
    IF k > Len(cont) THEN [value |-> None, err |-> "KeyError"]
    ELSE LET c == cont[k]
         IN  IF c[1] = FT_UNKNOWN \/ c[1] = FT_COMMENT
             THEN EntryByHashFrom(cont, k + 1, hex_hash)
             ELSE IF ~IsTuflowFilePart(c[2])
             THEN [value |-> None, err |-> "AttributeError"]
             ELSE IF FilePart(c[2].ref).hex_hash = hex_hash
             THEN [value |-> c[2], err |-> "none"]
             ELSE EntryByHashFrom(cont, k + 1, hex_hash)

getEntryByHash(cont, hex_hash) == EntryByHashFrom(cont, 1, hex_hash)

\* os.path.normpath on the components of a path: '.' is dropped and
\* 'x/..' collapses.
RECURSIVE NormComponents(_, _)
NormComponents(done, rest) ==
    IF rest = <<>> THEN done
    ELSE IF Head(rest) = "." THEN NormComponents(done, Tail(rest))
    ELSE IF Head(rest) = ".." /\ done # <<>> /\ done[Len(done)] # ".."
    THEN NormComponents(SubSeq(done, 1, Len(done) - 1), Tail(rest))
    ELSE NormComponents(Append(done, Head(rest)), Tail(rest))

normpath(p) == NormComponents(<<>>, p)

\* TuflowFile.getAbsolutePath(), getFileNameAndExtension()
getAbsolutePath(f) == FilePart(f.ref).path
getFileNameAndExtension(f) ==
    FilePart(f.ref).file_name \o "." \o FilePart(f.ref).extension

\* existing is the set of paths os.path.exists answers True for.
RECURSIVE TestExistsFrom(_, _, _, _)
TestExistsFrom(cont, k, failed, existing) ==
    IF k > Len(cont) THEN failed
    ELSE LET c == cont[k]
         IN  IF IsTuflowFile(c[2])
             THEN LET p == getAbsolutePath(c[2])
                  IN  IF c[1] = FT_RESULT
                      THEN TestExistsFrom(cont, k + 1, failed, existing)
                      ELSE IF p \notin existing
                      THEN TestExistsFrom(cont, k + 1,
                               Append(failed, <<getFileNameAndExtension(c[2]),
                                                normpath(p)>>), existing)
                      ELSE TestExistsFrom(cont, k + 1, failed, existing)
             ELSE TestExistsFrom(cont, k + 1, failed, existing)

\* testExists without the test c[0] == ft.RESULT
RECURSIVE TestExistsAllFrom(_, _, _, _)
TestExistsAllFrom(cont, k, failed, existing) ==
    IF k > Len(cont) THEN failed
    ELSE LET c == cont[k]
         IN  IF IsTuflowFile(c[2]) /\ getAbsolutePath(c[2]) \notin existing
             THEN TestExistsAllFrom(cont, k + 1,
                      Append(failed, <<getFileNameAndExtension(c[2]),
                                       normpath(getAbsolutePath(c[2]))>>), existing)
             ELSE TestExistsAllFrom(cont, k + 1, failed, existing)

testExistsAll(cont, existing) == TestExistsAllFrom(cont, 1, <<>>, existing)

testExists(cont, existing) == TestExistsFrom(cont, 1, <<>>, existing)

getFiles(cont, file_type, extensions, include_results) ==
    LET Keep(c) ==
            /\ IsTuflowFile(c[2])
            /\ ~(file_type # None /\ c[1] # file_type)
            /\ ~(~include_results /\ c[1] = FT_RESULT)
            /\ ~(extensions # <<>> /\ FilePart(c[2].ref).extension \notin Range(extensions))
        kept == SelectSeq(cont, Keep)
    IN  [k \in 1..Len(kept) |-> kept[k][2]]

getVariables(cont) ==
    LET Keep(c) == c[1] = FT_VARIABLE
        kept == SelectSeq(cont, Keep)
    IN  [k \in 1..Len(kept) |-> kept[k][2]]

(***************************************************************************)
(* The state after __init__, and the operations.                           *)
(***************************************************************************)
NoCall == [op |-> "none"]

Init ==
    /\ contents = <<>>
    /\ scenarios = <<>>
    /\ heap = <<>>
    /\ ret = NoCall

\* seq with x put at position pos
InsertAt(seq, pos, x) ==
    SubSeq(seq, 1, pos - 1) \o <<x>> \o SubSeq(seq, pos, Len(seq))

ScenarioHash(n) == "hS" \o ToString(n)

AddContent(line_type, filepart) ==
    /\ contents' = Append(contents, <<line_type, filepart>>)
    /\ ret' = NoCall
    /\ UNCHANGED <<scenarios, heap>>

\* The loader builds a TuflowScenario and hands it to addScenario. The new
\* object lies at any free address: pos is its rank among the addresses.
AddScenario(if_type, values, order, pos) ==
    /\ pos \in 1..(Len(heap) + 1)
    /\ scenarios' = Append(scenarios,
           TuflowScenario(if_type, values, ScenarioHash(Len(scenarios) + 1),
                          order, "", "!"))
    /\ heap' = InsertAt(heap, pos, Len(scenarios) + 1)
    /\ ret' = NoCall
    /\ UNCHANGED contents

\* The loader calls addPartRef on a block of the model.
AddPartRef(k, ref_type, hex_hash) ==
    /\ k \in 1..Len(scenarios)
    /\ scenarios' = [scenarios EXCEPT ![k] = addPartRef(@, ref_type, hex_hash)]
    /\ ret' = NoCall
    /\ UNCHANGED <<contents, heap>>

\* The loader sets has_endif on the block that the END IF line closes.
SetEndif(k) ==
    /\ k \in 1..Len(scenarios)
    /\ ~scenarios[k].has_endif
    /\ scenarios' = [scenarios EXCEPT ![k].has_endif = TRUE]
    /\ ret' = NoCall
    /\ UNCHANGED <<contents, heap>>

\* self.scenarios if line 219 were scenarios = self.scenarios: pop(0) would
\* take the blocks out of the model
ScenariosDequeuedInPlace(scens, local) == SubSeq(scens, Len(scens) - Len(local) + 1, Len(scens))

\* self.scenarios after a call of getPrintableContents: line 219 dequeues
\* from a new list, so the blocks dequeued (local is what is left of the
\* queue) stay in self.scenarios.
ScenariosAfterRender(scens, local) == scens


GetPrintableContents(has_estry_auto, emptyPeek) ==
    LET st == getPrintableContents(contents, scenarios, heap, has_estry_auto, emptyPeek)
    IN  /\ ret' = [op |-> "getPrintableContents", has_estry_auto |-> has_estry_auto,
                   value |-> IF st.err = "none" THEN st.output ELSE None,
                   err |-> st.err, locals |-> st]
        /\ scenarios' = ScenariosAfterRender(scenarios, st.scenarios)
        /\ UNCHANGED <<contents, heap>>

GetScenarioVariables ==
    /\ ret' = [op |-> "getScenarioVariables", value |-> getScenarioVariables(scenarios),
               err |-> "none"]
    /\ UNCHANGED <<contents, scenarios, heap>>

GetContentsByScenario(scenario_vals) ==
    /\ ret' = [op |-> "getContentsByScenario", scenario_vals |-> scenario_vals,
               value |-> getContentsByScenario(contents, scenarios, scenario_vals),
               err |-> "none"]
    /\ UNCHANGED <<contents, scenarios, heap>>

GetEntryByHash(hex_hash) ==
    LET r == getEntryByHash(contents, hex_hash)
    IN  /\ ret' = [op |-> "getEntryByHash", hex_hash |-> hex_hash,
                   value |-> r.value, err |-> r.err]
        /\ UNCHANGED <<contents, scenarios, heap>>

TestExists(existing) ==
    /\ ret' = [op |-> "testExists", existing |-> existing,
               value |-> testExists(contents, existing), err |-> "none"]
    /\ UNCHANGED <<contents, scenarios, heap>>

GetFiles(file_type, extensions, include_results) ==
    /\ ret' = [op |-> "getFiles", file_type |-> file_type, extensions |-> extensions,
               include_results |-> include_results,
               value |-> getFiles(contents, file_type, extensions, include_results),
               err |-> "none"]
    /\ UNCHANGED <<contents, scenarios, heap>>

GetVariables ==
    /\ ret' = [op |-> "getVariables", value |-> getVariables(contents), err |-> "none"]
    /\ UNCHANGED <<contents, scenarios, heap>>

(***************************************************************************)
(* The inputs.                                                             *)
(***************************************************************************)
CommentLine == <<FT_COMMENT, Text("! note\n")>>
UnknownLine == <<FT_UNKNOWN, Text("Foo == 1\n")>>
ScenarioMarker == <<FT_SCENARIO, NoPayload>>
ScenarioEndMarker == <<FT_SCENARIO_END, NoPayload>>

\* what LoadStack.peek() may do on an empty stack
EmptyPeekOutcomes == {"raise", "none"}

(***************************************************************************)
(* SpecRender: the load phase of a control file with scenario blocks, an   *)
(* estry control file and plain lines, and getPrintableContents.           *)
(***************************************************************************)
MaxRenderLen == 4
MaxRenderScen == 2

RenderEntries ==
    {ScenarioMarker, ScenarioEndMarker, <<FT_GIS, Part("C")>>, <<FT_MODEL, Part("E")>>}

RenderBlocks == {<<TS_IF, <<"1">>>>, <<TS_ELSE, <<"ELSE">>>>}

NextRender ==
    \/ \E e \in RenderEntries :
          Len(contents) < MaxRenderLen /\ AddContent(e[1], e[2])
    \/ \E b \in RenderBlocks, order \in 1..MaxRenderScen, pos \in 1..MaxRenderScen :
          Len(scenarios) < MaxRenderScen /\ AddScenario(b[1], b[2], order, pos)
    \/ \E k \in 1..MaxRenderScen : SetEndif(k)
    \/ \E auto \in BOOLEAN, emptyPeek \in EmptyPeekOutcomes :
          GetPrintableContents(auto, emptyPeek)

SpecRender == Init /\ [][NextRender]_vars

\* The number of entries of cont[1..n] with tag t.
Count(cont, n, t) == Cardinality({k \in 1..n : cont[k][1] = t})

\* Every SCENARIO_END closes an open block and every block is closed.
Balanced(cont) ==
    /\ \A n \in 1..Len(cont) : Count(cont, n, FT_SCENARIO_END) <= Count(cont, n, FT_SCENARIO)
    /\ Count(cont, Len(cont), FT_SCENARIO_END) = Count(cont, Len(cont), FT_SCENARIO)

Rendered == ret.op = "getPrintableContents"

IsIncreasing(seq) == \A j, k \in 1..Len(seq) : j < k => seq[j] < seq[k]

\* C1: on a model whose scenario markers are balanced and matched by as many
\* addScenario calls, getPrintableContents returns, for either value of the
\* auto toggle, exactly one line per entry that was not consumed as a chain
\* continuation, the lines in the order of their entries.
C1_OneLinePerEntry ==
    (/\ Rendered
     /\ Balanced(contents)
     /\ Count(contents, Len(contents), FT_SCENARIO) = Len(scenarios))
    => /\ ret.err = "none"
       /\ Len(ret.value) = Len(contents) - Cardinality(ret.locals.skip_lines)
       /\ IsIncreasing(ret.locals.line_of)
       /\ Range(ret.locals.line_of) = (1..Len(contents)) \ ret.locals.skip_lines

\* A plain line: a file part that is no chain head and no estry control file.
IsPlain(e) ==
    /\ IsTuflowFilePart(e[2])
    /\ FilePart(e[2].ref).child_hash = None
    /\ FilePart(e[2].ref).category # "ecf"

\* The model is one if/else group at the top level: an If block with values
\* ["1"], then an Else block carrying the closing marker, dequeued in that
\* order, and in the entries one SCENARIO per block, plain lines, and the
\* group's single SCENARIO_END last; p is the position of the Else's marker.
IfElseGroup(p) ==
    /\ Len(scenarios) = 2
    /\ scenarios[1].if_type = TS_IF /\ scenarios[1].values = <<"1">>
    /\ ~scenarios[1].has_endif
    /\ scenarios[2].values = <<"ELSE">> /\ scenarios[2].has_endif
    /\ scenarios[1].order < scenarios[2].order
    /\ heap = <<1, 2>>
    /\ Len(contents) >= 3
    /\ p \in 2..(Len(contents) - 1)
    /\ contents[1] = ScenarioMarker
    /\ contents[p] = ScenarioMarker
    /\ contents[Len(contents)] = ScenarioEndMarker
    /\ \A k \in (2..(Len(contents) - 1)) \ {p} : IsPlain(contents[k])

\* What the claim expects for entry k of such a group.
IfElseLine(p, k) ==
    IF k = 1 THEN "IF SCENARIO == 1"
    ELSE IF k = p THEN "ELSE"
    ELSE IF k = Len(contents) THEN "END IF"
    ELSE Spaces(IndentStep) \o FilePart(contents[k][2].ref).text \o "\n"

\* C2: an If block with values ["1"] followed by an Else block with the
\* closing marker, the group having a single ScenarioEnd entry, renders as
\* "IF SCENARIO == 1" at the outer indent, the If branch's entries at the
\* outer indent + 4, "ELSE", the Else branch's entries at the outer indent + 4,
\* and "END IF" at the outer indent.
C2_IfElseRendering ==
    \A p \in 1..Len(contents) :
        (Rendered /\ IfElseGroup(p))
        => /\ ret.err = "none"
           /\ ret.value = [k \in 1..Len(contents) |-> IfElseLine(p, k)]

\* Some SCENARIO_END of cont has no open block when it is met.
HasUnmatchedEnd(cont) ==
    \E n \in 1..Len(cont) : Count(cont, n, FT_SCENARIO_END) > Count(cont, n, FT_SCENARIO)

\* C8: when getPrintableContents meets a ScenarioEnd entry while no block is
\* open, it fails with a structural error, without having taken the indent
\* below zero.
C8_UnmatchedEndIsStructuralError ==
    (/\ Rendered
     /\ HasUnmatchedEnd(contents)
     /\ Count(contents, Len(contents), FT_SCENARIO) <= Len(scenarios))
    => /\ ret.err = "StructuralError"
       /\ ret.locals.indent_spacing >= 0

\* The k-th smallest of the blocks' order fields.
KthOrder(scens, k) ==
    CHOOSE v \in {scens[j].order : j \in 1..Len(scens)} :
        /\ Cardinality({j \in 1..Len(scens) : scens[j].order < v}) < k
        /\ Cardinality({j \in 1..Len(scens) : scens[j].order <= v}) >= k

\* C9: the k-th Scenario marker met is rendered with the block that has the
\* k-th smallest order, whatever order the blocks were added in.
C9_DequeuedByOrder ==
    Rendered =>
        \A k \in 1..Len(ret.locals.opened) :
            ret.locals.opened[k].order = KthOrder(scenarios, k)

(***************************************************************************)
(* SpecChain: the load phase of a control file with a piped line           *)
(* (A | B | C), an estry control file and one scenario block, and          *)
(* getPrintableContents.                                                   *)
(***************************************************************************)
MaxChainLen == 4
MaxChainScen == 1

ChainEntries ==
    {ScenarioMarker, <<FT_GIS, Part("A")>>, <<FT_GIS, Part("B")>>,
     <<FT_GIS, Part("C")>>, <<FT_MODEL, Part("E")>>}

NextChain ==
    \/ \E e \in ChainEntries :
          Len(contents) < MaxChainLen /\ AddContent(e[1], e[2])
    \/ \E pos \in 1..MaxChainScen :
          Len(scenarios) < MaxChainScen /\ AddScenario(TS_IF, <<"1">>, 1, pos)
    \/ \E auto \in BOOLEAN, emptyPeek \in EmptyPeekOutcomes :
          GetPrintableContents(auto, emptyPeek)

SpecChain == Init /\ [][NextChain]_vars

\* The parts at positions a, b and c form a chain: a links to b, b to c, and
\* c links no further.
Linked(cont, a, b, c) ==
    /\ IsTuflowFile(cont[a][2]) /\ IsTuflowFile(cont[b][2]) /\ IsTuflowFile(cont[c][2])
    /\ FilePart(cont[a][2].ref).child_hash = FilePart(cont[b][2].ref).hex_hash
    /\ FilePart(cont[b][2].ref).child_hash = FilePart(cont[c][2].ref).hex_hash
    /\ FilePart(cont[c][2].ref).child_hash = None

\* The indent in force at entry i: 4 blanks per block open there.
IndentAt(cont, i) ==
    Spaces(IndentStep * (Count(cont, i - 1, FT_SCENARIO) - Count(cont, i - 1, FT_SCENARIO_END)))

ChainLine(cont, a, b, c) ==
    IndentAt(cont, a) \o FilePart(cont[a][2].ref).text \o " | "
        \o FilePart(cont[b][2].ref).text \o " | " \o FilePart(cont[c][2].ref).text \o "\n"

\* The call returned one line for entry a, the chain's line, and no line for
\* the entries b and c.
ChainRendered(a, b, c) ==
    /\ ret.err = "none"
    /\ Cardinality({n \in 1..Len(ret.value) : ret.locals.line_of[n] = a}) = 1
    /\ \A n \in 1..Len(ret.value) :
          /\ ret.locals.line_of[n] = a => ret.value[n] = ChainLine(contents, a, b, c)
          /\ ret.locals.line_of[n] # b
          /\ ret.locals.line_of[n] # c

\* C3 as stated: whenever the entries hold a chain A -> B -> C (and every
\* Scenario marker has its block), the call emits the one line "A | B | C" at
\* the current indent and no line for B or for C.
C3_ChainAnywhere ==
    \A a, b, c \in 1..Len(contents) :
        (/\ Rendered
         /\ Linked(contents, a, b, c)
         /\ Count(contents, Len(contents), FT_SCENARIO) <= Len(scenarios))
        => ChainRendered(a, b, c)

\* C3 as amended: when B and C are the two entries right after A, A is no
\* estry control file and is not itself consumed as the continuation of an
\* earlier chain, a call that returns has emitted the one line "A | B | C" at
\* the indent in force at A, and no line for B or for C.
C3_ChainAdjacent ==
    \A a \in 1..Len(contents) :
        (/\ Rendered
         /\ ret.err = "none"
         /\ a + 2 <= Len(contents)
         /\ Linked(contents, a, a + 1, a + 2)
         /\ FilePart(contents[a][2].ref).category # "ecf"
         /\ a \notin ret.locals.skip_lines)
        => ChainRendered(a, a + 1, a + 2)

\* A chain of three met inside an open scenario block, rendered as one line.
C3_Witness ==
    /\ Rendered
    /\ ret.err = "none"
    /\ \E a \in 2..Len(contents) :
          /\ a + 2 <= Len(contents)
          /\ Linked(contents, a, a + 1, a + 2)
          /\ contents[a - 1] = ScenarioMarker
          /\ ret.locals.skip_lines = {a + 1, a + 2}
          /\ ret.value[Len(ret.value)] = "    Read GIS Z Line == a.shp | b.shp | c.shp\n"

(***************************************************************************)
(* SpecFiles: the load phase of a control file with files, a result file,  *)
(* a variable, a scenario marker and lines kept as text, and the queries   *)
(* over the entries.                                                       *)
(***************************************************************************)
MaxFilesLen == 3

FilesEntries ==
    {CommentLine, UnknownLine, ScenarioMarker, <<FT_MODEL, Part("F")>>,
     <<FT_GIS, Part("C")>>, <<FT_RESULT, Part("R")>>, <<FT_VARIABLE, Part("V")>>}

\* the hash codes asked for: those of the parts, and one no part has
Hashes == {"hF", "hC", "hR", "hV", "hX"}

\* the paths os.path.exists is asked about
Paths == {FilePart(r).path : r \in {"F", "C", "R"}}

NextFiles ==
    \/ \E e \in FilesEntries :
          Len(contents) < MaxFilesLen /\ AddContent(e[1], e[2])
    \/ \E h \in Hashes : GetEntryByHash(h)
    \/ \E existing \in SUBSET Paths : TestExists(existing)
    \/ \E file_type \in {None, FT_MODEL, FT_RESULT}, extensions \in {<<>>, <<"tgc">>},
          include_results \in BOOLEAN :
          GetFiles(file_type, extensions, include_results)
    \/ GetVariables

SpecFiles == Init /\ [][NextFiles]_vars

\* The entries of cont that carry the identifier h.
Carrying(cont, h) ==
    {k \in 1..Len(cont) :
        IsTuflowFilePart(cont[k][2]) /\ FilePart(cont[k][2].ref).hex_hash = h}

\* C4: whatever Comment, Unknown, Scenario and ScenarioEnd entries the
\* sequence also holds, getEntryByHash(id) fails with the not-found error
\* (KeyError) when no entry carries id, and returns the stored payload when id
\* was added with a tag that is neither Comment nor a scenario marker.
C4_EntryByHash ==
    ret.op = "getEntryByHash" =>
        /\ Carrying(contents, ret.hex_hash) = {} => ret.err = "KeyError"
        /\ \A k \in Carrying(contents, ret.hex_hash) :
              contents[k][1] \notin {FT_COMMENT, FT_SCENARIO, FT_SCENARIO_END}
              => ret.err = "none" /\ ret.value = contents[k][2]

\* The n-th smallest element of a set of numbers.
Nth(S, n) == CHOOSE k \in S : Cardinality({j \in S : j < k}) = n - 1

\* The entries testExists is to report: a TuflowFile, not tagged RESULT,
\* whose path does not exist.
Missing(cont, existing) ==
    {k \in 1..Len(cont) :
        /\ IsTuflowFile(cont[k][2])
        /\ cont[k][1] # FT_RESULT
        /\ FilePart(cont[k][2].ref).path \notin existing}

\* C7: whatever os.path.exists answers, testExists does not raise and returns,
\* in entry order, one (name, normalised path) item for each entry holding a
\* file, not tagged RESULT, whose path does not exist; so no RESULT entry is
\* ever reported.
C7_TestExists ==
    ret.op = "testExists" =>
        LET miss == Missing(contents, ret.existing)
        IN  /\ ret.err = "none"
            /\ Len(ret.value) = Cardinality(miss)
            /\ \A n \in 1..Len(ret.value) :
                  LET f == contents[Nth(miss, n)][2]
                  IN  ret.value[n] = <<getFileNameAndExtension(f),
                                       normpath(FilePart(f.ref).path)>>

\* A call that reports two missing files, the second with a path that
\* normpath changes, and passes over a RESULT entry whose path is missing too.
C7_Witness ==
    /\ ret.op = "testExists"
    /\ ret.value = << <<"c.shp", <<"m", "gis", "c.shp">> >>, <<"g.tgc", <<"m", "g.tgc">> >> >>
    /\ \E k \in 1..Len(contents) :
          /\ contents[k][1] = FT_RESULT
          /\ FilePart(contents[k][2].ref).path \notin ret.existing

(***************************************************************************)
(* SpecScenario: the load phase of a control file with scenario blocks     *)
(* and the parts they refer to, and the two scenario queries.  The bound   *)
(* is on the number of calls the loader makes.                             *)
(***************************************************************************)
MaxScenarioCalls == 6

\* The number of load calls made: one per entry, per block and per reference.
RECURSIVE RefCount(_)
RefCount(scens) ==
    IF scens = <<>> THEN 0 ELSE Len(Head(scens).part_list) + RefCount(Tail(scens))

LoadCalls == Len(contents) + Len(scenarios) + RefCount(scenarios)

ScenarioEntries == {<<FT_GIS, Part("C")>>, <<FT_VARIABLE, Part("V")>>}

ScenarioBlocks ==
    {<<TS_IF, <<"1">>>>, <<TS_ELSE, <<"2", "1">>>>, <<TS_ELSE, <<"ELSE">>>>}

ScenarioRefs ==
    {<<TUFLOW_PART, "hC">>, <<TUFLOW_PART, "hV">>, <<SCENARIO_PART, "hS2">>}

Selections == {<<"1">>, <<"2">>, <<"3", "ELSE">>}

NextScenario ==
    \/ \E e \in ScenarioEntries :
          LoadCalls < MaxScenarioCalls /\ AddContent(e[1], e[2])
    \/ \E b \in ScenarioBlocks :
          LoadCalls < MaxScenarioCalls
          /\ AddScenario(b[1], b[2], Len(scenarios) + 1, Len(heap) + 1)
    \/ \E k \in 1..MaxScenarioCalls, r \in ScenarioRefs :
          LoadCalls < MaxScenarioCalls /\ AddPartRef(k, r[1], r[2])
    \/ GetScenarioVariables
    \/ \E sel \in Selections : GetContentsByScenario(sel)

SpecScenario == Init /\ [][NextScenario]_vars

\* The entries getContentsByScenario is to return: those holding a file part
\* whose identifier some block with a selected value lists as a TUFLOW_PART.
Selected(cont, scens, sel) ==
    {k \in 1..Len(cont) :
        /\ IsTuflowFilePart(cont[k][2])
        /\ \E j \in 1..Len(scens) :
              /\ Range(scens[j].values) \cap Range(sel) # {}
              /\ <<TUFLOW_PART, FilePart(cont[k][2].ref).hex_hash>>
                     \in Range(scens[j].part_list)}

\* C5: getContentsByScenario(selected) returns the payloads of exactly the
\* entries holding a file part that a block whose values meet selected lists
\* as a file-part reference: each such entry once, in entry order, and no
\* other entry.
C5_ContentsByScenario ==
    ret.op = "getContentsByScenario" =>
        LET sel == Selected(contents, scenarios, ret.scenario_vals)
        IN  /\ Len(ret.value) = Cardinality(sel)
            /\ \A n \in 1..Len(ret.value) : ret.value[n] = contents[Nth(sel, n)][2]

\* A call that returns the part a selected block lists and leaves out a part
\* listed only by a block that is not selected.
C5_Witness ==
    /\ ret.op = "getContentsByScenario"
    /\ ret.value = <<Part("C")>>
    /\ \E k \in 1..Len(contents) : contents[k][2] = Part("V")
    /\ \E j \in 1..Len(scenarios) : <<TUFLOW_PART, "hV">> \in Range(scenarios[j].part_list)

\* All the values of the blocks, block after block.
RECURSIVE AllValues(_)
AllValues(scens) ==
    IF scens = <<>> THEN <<>> ELSE Head(scens).values \o AllValues(Tail(scens))

FirstAt(seq, v) == CHOOSE k \in 1..Len(seq) : seq[k] = v /\ \A j \in 1..(k - 1) : seq[j] # v

\* C6: getScenarioVariables returns every value of some block other than
\* "ELSE" exactly once, in the order of the values' first occurrences.
C6_ScenarioVariables ==
    ret.op = "getScenarioVariables" =>
        LET all == AllValues(scenarios)
        IN  /\ Range(ret.value) = Range(all) \ {"ELSE"}
            /\ Cardinality(Range(ret.value)) = Len(ret.value)
            /\ \A i, j \in 1..Len(ret.value) :
                  i < j => FirstAt(all, ret.value[i]) < FirstAt(all, ret.value[j])

\* A call on blocks that hold an ELSE and a value met twice.
C6_Witness ==
    /\ ret.op = "getScenarioVariables"
    /\ ret.value = <<"2", "1">>
    /\ Len(AllValues(scenarios)) = 4
    /\ "ELSE" \in Range(AllValues(scenarios))

(***************************************************************************)
(* Spec: every operation of the model file, in any order, on a small       *)
(* control file.  The bound is on the number of calls the loader makes.    *)
(***************************************************************************)
MaxCalls == 4

\* the load calls made, those that set has_endif included
AllLoadCalls ==
    LoadCalls + Cardinality({k \in 1..Len(scenarios) : scenarios[k].has_endif})

Entries ==
    {CommentLine, ScenarioMarker, ScenarioEndMarker,
     <<FT_GIS, Part("C")>>, <<FT_VARIABLE, Part("V")>>}

Next ==
    \/ \E e \in Entries :
          AllLoadCalls < MaxCalls /\ AddContent(e[1], e[2])
    \/ \E b \in RenderBlocks, pos \in 1..MaxCalls :
          AllLoadCalls < MaxCalls /\ AddScenario(b[1], b[2], Len(scenarios) + 1, pos)
    \/ \E k \in 1..MaxCalls :
          AllLoadCalls < MaxCalls /\ AddPartRef(k, TUFLOW_PART, "hC")
    \/ \E k \in 1..MaxCalls :
          AllLoadCalls < MaxCalls /\ SetEndif(k)
    \/ \E auto \in BOOLEAN, emptyPeek \in EmptyPeekOutcomes :
          GetPrintableContents(auto, emptyPeek)
    \/ GetScenarioVariables
    \/ GetContentsByScenario(<<"1">>)
    \/ \E h \in {"hC", "hX"} : GetEntryByHash(h)
    \/ \E existing \in SUBSET {FilePart("C").path} : TestExists(existing)
    \/ \E include_results \in BOOLEAN : GetFiles(None, <<>>, include_results)
    \/ GetVariables

Spec == Init /\ [][Next]_vars

Queries ==
    {"getPrintableContents", "getScenarioVariables", "getContentsByScenario",
     "getEntryByHash", "testExists", "getFiles", "getVariables"}

====
